---- MODULE Spec2Model ----
(***************************************************************************)
(* Model of the EchoCheck server (server/index.js): the upload store, the  *)
(* /check-file, /generate-pdf and /cleanup handlers and the completion     *)
(* callbacks of the external processes they spawn.                         *)
(*                                                                         *)
(* A stored file name is <fieldname>-<uniqueSuffix><ext>; it is modelled   *)
(* as the record [id |-> uniqueSuffix, ext |-> ext].  Every file lives in  *)
(* the uploads directory.  disk[p] is the origin of the file at p: NoFile, *)
(* FromUpload, the slot of the running request whose external process      *)
(* wrote it, or Orphan once that request has ended.                        *)
(*                                                                         *)
(* The server handles any number of requests; req[r] is the r-th request   *)
(* being handled at the moment (a slot is free again when its request has  *)
(* ended), and resp is the response sent by the last step (NoResp when it  *)
(* sent none).  cleaned is a history variable: the stored names a Cleanup  *)
(* has removed and no Upload has issued again since; only the              *)
(* specification that observes it (SpecAnyUpload) records it.  ef is the   *)
(* last result of the consistency evaluator: the three extracted values    *)
(* and the status it gave them.  errorOutput[r] is the length, in chunks,  *)
(* of the text the handler of request r has collected from the stderr of   *)
(* its extraction process; only SpecDiag follows it.                       *)
(***************************************************************************)
EXTENDS Integers, Sequences, FiniteSets, TLC

\* ---- bounds ----
\* number of distinct uniqueSuffix values /upload can draw
MaxIds == 1
\* number of requests the server handles at the same time
MaxReqs == 2
\* largest ejection fraction (whole percent) a document states
MaxEF == 4
\* number of chunks the extraction process writes to stderr at most
MaxChunks == 2
\* number of milliseconds in which uploads arrive
MaxNow == 2
\* largest value the random part of an upload's name takes
MaxRandom == 1

\* ---- value spaces ----
Ids == 1..MaxIds
\* the suffixes of two different reports
TwoIds == {1, 2}
Reqs == 1..MaxReqs
\* path.extname(file.originalname) of an uploaded report
UploadExts == {".rtf"}
\* path.extname(file.originalname) of any file a client may send: a report,
\* a report named in upper case, a file that is no report
ClientExts == UploadExts \cup {".RTF", ".txt"}
\* the extensions of the files found in the uploads directory
Exts == UploadExts \cup {".rtf", ".docx", ".pdf"}
\* file.mimetype as declared by the client
Mimes == {"application/rtf", "text/plain"}
\* the paths inside the uploads directory
Paths == [id : Ids \cup TwoIds, ext : Exts]
\* the paths inside the uploads directory when clients send files of any name
ClientPaths == [id : Ids, ext : ClientExts \cup Exts]
\* a request body without filename
NoName == [id |-> 0, ext |-> ""]
\* the filename field of a request: absent, or a name /upload has returned
ReqNames == [id : Ids, ext : UploadExts] \cup {NoName}
\* the filename field of a request for one of two stored reports
TwoNames == [id : TwoIds, ext : UploadExts] \cup {NoName}
\* the filename field of a request when clients send files of any name
ClientNames == [id : Ids, ext : ClientExts] \cup {NoName}
\* origins of a file: absent, stored by /upload, left by an ended request,
\* or written by the process of the request in slot r
NoFile == -2
FromUpload == -1
Orphan == 0
Origins == {NoFile, FromUpload, Orphan} \cup Reqs
\* what JSON.parse makes of the extraction output: a result with one of the
\* four statuses, or a SyntaxError ("garbage")
CheckStatuses == {"good", "discordant", "incomplete", "error"}
Outputs == CheckStatuses \cup {"garbage"}
\* what JSON.parse makes of any text the process can write: also a JSON
\* value that is no result ("other": null, a number, {} ...), which it
\* returns without throwing
ParsedOutputs == Outputs \cup {"other"}
ExitCodes == {0, 1}
\* an extracted value: a whole percentage, or the Missing marker
Missing == -1
EFValues == (0..MaxEF) \cup {Missing}

VARIABLES disk, req, resp, cleaned, ef, errorOutput, client

vars == <<disk, req, resp, cleaned, ef, errorOutput, client>>

\* what the routes and callbacks of the server never write
hist == <<cleaned, ef, errorOutput, client>>

\* ---- pure helpers ----

\* String.prototype.toLowerCase on an extension
toLowerCase(e) == IF e = ".RTF" THEN ".rtf" ELSE e

\* multer fileFilter: accept by declared MIME type or by lower-cased extension
fileFilter(mime, ext) == mime = "application/rtf" \/ toLowerCase(ext) = ".rtf"

\* String.prototype.replace(from, to) on a stored path: the only place a
\* stored name can contain `from` is its extension, and the match is
\* case-sensitive; a path without a match is returned unchanged
replace(p, from, to) == IF p.ext = from THEN [p EXCEPT !.ext = to] ELSE p

\* faulty variant: every conversion writes to one fixed file name
docxPathShared(rtfPath) == [id |-> 1, ext |-> ".docx"]

\* const docxPath = rtfPath.replace('.rtf', '.docx')
docxPathOf(rtfPath) == replace(rtfPath, ".rtf", ".docx")

\* const pdfPath = docxPath.replace('.docx', '.pdf')
pdfPathOf(docxPath) == replace(docxPath, ".docx", ".pdf")

\* faulty variant: every path is reported to exist
pathExistsAlways(p) == TRUE

\* fs.pathExists
pathExists(p) == p \in DOMAIN disk /\ disk[p] # NoFile

\* a response: the route and filename of its request, the HTTP status and
\* the error / details / result fields of its body; details names the
\* variable whose text the body echoes ("errorOutput": what the process
\* wrote to stderr, "output": what it wrote to stdout, "undefined": no field)
Response(k, f, st, err, det, res) ==
    [kind |-> k, filename |-> f, status |-> st, error |-> err,
     details |-> det, result |-> res]

\* no response has been sent yet
NoResp == Response("none", NoName, 0, "", "undefined", "none")

\* a free request slot
FreshReq == [kind |-> "none", filename |-> NoName, py |-> "none", conv |-> "none",
             pdf |-> "none", dl |-> "none", pendingRm |-> {}]

\* a new request takes the first free slot
Arrives(r) == /\ req[r].kind = "none"
              /\ \A q \in Reqs : q < r => req[q].kind # "none"

\* request r has ended: the files its processes left behind are orphans
Release(d, r) == [p \in DOMAIN d |-> IF d[p] = r THEN Orphan ELSE d[p]]

\* the result of an evaluation: the three extracted values and the status
Result(c, t, k, st) == [conclusion |-> c, text |-> t, calcs |-> k, status |-> st]

\* nothing has been evaluated yet
NoResult == Result(Missing, Missing, Missing, "none")

\* faulty variant: values one percent apart count as equal
evaluateWithinOne(c, t, k) ==
    IF Missing \in {c, t, k} THEN "incomplete"
    ELSE IF \A x, y \in {c, t, k} : x - y <= 1 THEN "good"
    ELSE "discordant"

\* the consistency evaluator: its rules in priority order
evaluate(c, t, k) ==
    IF Missing \in {c, t, k} THEN "incomplete"
    ELSE IF c = t /\ t = k THEN "good"
    ELSE "discordant"

\* the ActionButtons component before any result is shown: useState(false),
\* useState(null), no request sent
NoClient == [status |-> "none", isGeneratingPdf |-> FALSE, pdfError |-> "null", pending |-> 0]

\* ---- initial state: empty uploads directory, no request yet ----
Init == /\ disk = [p \in Paths |-> NoFile]
        /\ req = [r \in Reqs |-> FreshReq]
        /\ resp = NoResp
        /\ cleaned = {}
        /\ ef = NoResult
        /\ errorOutput = [r \in Reqs |-> 0]
        /\ client = NoClient

\* faulty variant: an accepted upload starts the extraction at once
UploadStartsCheck(id, ext, mime) ==
    /\ fileFilter(mime, ext)
    /\ disk' = [disk EXCEPT ![[id |-> id, ext |-> ext]] = FromUpload]
    /\ resp' = Response("upload", [id |-> id, ext |-> ext], 200, "", "undefined",
                        "File uploaded successfully")
    /\ req' = [req EXCEPT ![1] = [FreshReq EXCEPT !.kind = "check",
                                                  !.filename = [id |-> id, ext |-> ext],
                                                  !.py = "running"]]

\* ---- POST /upload ----
\* multer stores the file under uploads/ as fieldname-uniqueSuffix+extname
\* when fileFilter accepts it; a rejected upload stores nothing
Upload(id, ext, mime) ==
    /\ IF fileFilter(mime, ext)
         THEN /\ disk' = [disk EXCEPT ![[id |-> id, ext |-> ext]] = FromUpload]
              /\ resp' = Response("upload", [id |-> id, ext |-> ext], 200, "", "undefined",
                                  "File uploaded successfully")
         ELSE /\ resp' = Response("upload", NoName, 500, "Internal server error", "undefined", "none")
              /\ UNCHANGED disk
    /\ UNCHANGED req

\* faulty variant: the limit counted in decimal megabytes
fileSizeDecimal == 10 * 1000 * 1000

\* limits: { fileSize: 10 * 1024 * 1024 }
fileSize == 10 * 1024 * 1024

\* file.size of the files a client sends: around the limit
Sizes == {fileSize - 1, fileSize, fileSize + 1}

\* POST /upload of a file of `size` bytes: multer counts the bytes of a file
\* its fileFilter has accepted; beyond limits.fileSize it aborts with the
\* MulterError LIMIT_FILE_SIZE, removes what it wrote, and the error
\* middleware answers 400; a file within the limit is handled as in Upload
UploadSized(id, ext, mime, size) ==
    IF fileFilter(mime, ext) /\ size > fileSize
      THEN /\ resp' = Response("upload", NoName, 400, "File too large", "undefined", "none")
           /\ UNCHANGED <<disk, req>>
      ELSE Upload(id, ext, mime)

\* FileUploader.onDrop: the client sends the file unless its name does not
\* end in .rtf (lower-cased) or file.size > 10 * 1024 * 1024
clientSends(ext, size) == toLowerCase(ext) = ".rtf" /\ ~(size > 10 * 1024 * 1024)

\* ---- POST /check-file ----
CheckFile(r, filename) ==
    /\ Arrives(r)
    /\ IF filename = NoName
         THEN /\ resp' = Response("check", filename, 400, "Filename is required", "undefined", "none")
              /\ UNCHANGED req
         ELSE IF ~pathExists(filename)
         THEN /\ resp' = Response("check", filename, 404, "File not found", "undefined", "none")
              /\ UNCHANGED req
         ELSE /\ req' = [req EXCEPT ![r] = [FreshReq EXCEPT !.kind = "check", !.filename = filename,
                                                            !.py = "running"]]
              /\ resp' = NoResp
    /\ UNCHANGED disk

\* faulty variant: the handler removes the checked file when the process
\* has ended
PythonCloseRemovesFile(r, code, out) ==
    /\ req[r].py = "running"
    /\ req' = [req EXCEPT ![r] = FreshReq]
    /\ resp' = Response("check", req[r].filename, IF code # 0 THEN 500 ELSE 200, "", "undefined", out)
    /\ disk' = [disk EXCEPT ![req[r].filename] = NoFile]

\* pythonProcess.on('close'): the extraction process ended with exit code
\* `code`; `out` is what JSON.parse makes of its stdout
PythonClose(r, code, out) ==
    /\ req[r].py = "running"
    /\ req' = [req EXCEPT ![r] = FreshReq]
    /\ IF code # 0
         THEN resp' = Response("check", req[r].filename, 500, "EF check failed", "errorOutput", "none")
         ELSE IF out = "garbage"
         THEN resp' = Response("check", req[r].filename, 500, "Failed to parse EF check results",
                                   "output", "none")
         ELSE resp' = Response("check", req[r].filename, 200, "", "undefined", out)
    /\ UNCHANGED disk

\* ---- POST /generate-pdf ----
GeneratePdf(r, filename) ==
    /\ Arrives(r)
    /\ IF filename = NoName
         THEN /\ resp' = Response("generate", filename, 400, "Filename is required", "undefined", "none")
              /\ UNCHANGED req
         ELSE IF ~pathExists(filename)
         THEN /\ resp' = Response("generate", filename, 404, "File not found", "undefined", "none")
              /\ UNCHANGED req
         ELSE /\ req' = [req EXCEPT ![r] = [FreshReq EXCEPT !.kind = "generate", !.filename = filename,
                                                            !.conv = "running"]]
              /\ resp' = NoResp
    /\ UNCHANGED disk

\* the conversion process (convert_rtf_to_docx.py rtfPath docxPath) saves
\* its output document while it runs
ConvertWrite(r) ==
    /\ req[r].conv = "running"
    /\ disk[docxPathOf(req[r].filename)] # r
    /\ disk' = [disk EXCEPT ![docxPathOf(req[r].filename)] = r]
    /\ resp' = NoResp
    /\ UNCHANGED req

\* faulty variant: the PDF stage is spawned whatever the exit code was
SpawnsPdfStageAlways(code) == TRUE

\* the branch `if (code !== 0) return res.status(500)...` of
\* convertProcess.on('close'): the PDF stage is spawned iff it is not taken
SpawnsPdfStage(code) == code = 0

\* convertProcess.on('close')
ConvertClose(r, code) ==
    /\ req[r].conv = "running"
    /\ IF SpawnsPdfStage(code)
         THEN /\ req' = [req EXCEPT ![r].conv = IF code = 0 THEN "ok" ELSE "failed",
                                    ![r].pdf = "running"]
              /\ resp' = NoResp
              /\ UNCHANGED disk
         ELSE /\ req' = [req EXCEPT ![r] = FreshReq]
              /\ resp' = Response("generate", req[r].filename, 500, "RTF to DOCX conversion failed",
                                      "undefined", "none")
              /\ disk' = Release(disk, r)

\* the PDF process (generate_pdf.py docxPath pdfPath) writes its output
PdfWrite(r) ==
    /\ req[r].pdf = "running"
    /\ disk[pdfPathOf(docxPathOf(req[r].filename))] # r
    /\ disk' = [disk EXCEPT ![pdfPathOf(docxPathOf(req[r].filename))] = r]
    /\ resp' = NoResp
    /\ UNCHANGED req

\* pdfProcess.on('close')
PdfClose(r, code) ==
    /\ req[r].pdf = "running"
    /\ IF code # 0
         THEN /\ req' = [req EXCEPT ![r] = FreshReq]
              /\ resp' = Response("generate", req[r].filename, 500, "PDF generation failed",
                                      "undefined", "none")
              /\ disk' = Release(disk, r)
         ELSE IF pathExists(pdfPathOf(docxPathOf(req[r].filename)))
         THEN /\ req' = [req EXCEPT ![r].pdf = "ok", ![r].dl = "sending"]
              /\ resp' = Response("generate", req[r].filename, 200, "", "undefined", "file")
              /\ UNCHANGED disk
         ELSE /\ req' = [req EXCEPT ![r] = FreshReq]
              /\ resp' = Response("generate", req[r].filename, 500, "PDF file was not created",
                                      "undefined", "none")
              /\ disk' = Release(disk, r)

\* faulty variant: only the final output is removed
TempFilesPdfOnly(rtfPath) == {pdfPathOf(docxPathOf(rtfPath))}

\* the temporary files the res.download callback removes
TempFiles(rtfPath) == {docxPathOf(rtfPath), pdfPathOf(docxPathOf(rtfPath))}

\* the res.download callback: the transfer ended (with or without error)
\* and both fs.remove calls are issued without being awaited
DownloadCallback(r) ==
    /\ req[r].dl = "sending"
    /\ req' = [req EXCEPT ![r].dl = "done", ![r].pendingRm = TempFiles(req[r].filename)]
    /\ resp' = NoResp
    /\ UNCHANGED disk

\* one of the issued fs.remove calls completes; the request has ended when
\* the last one has
RemoveTemp(r, p) ==
    /\ p \in req[r].pendingRm
    /\ IF req[r].pendingRm = {p}
         THEN /\ req' = [req EXCEPT ![r] = FreshReq]
              /\ disk' = Release([disk EXCEPT ![p] = NoFile], r)
         ELSE /\ req' = [req EXCEPT ![r].pendingRm = @ \ {p}]
              /\ disk' = [disk EXCEPT ![p] = NoFile]
    /\ resp' = NoResp

\* ---- POST /cleanup ----
Cleanup(r, filename) ==
    /\ Arrives(r)
    /\ IF filename = NoName
         THEN /\ resp' = Response("cleanup", filename, 400, "Filename is required", "undefined", "none")
              /\ UNCHANGED disk
         ELSE IF pathExists(filename)
         THEN /\ disk' = [disk EXCEPT ![filename] = NoFile]
              /\ resp' = Response("cleanup", filename, 200, "", "undefined",
                                      "File cleaned up successfully")
         ELSE /\ resp' = Response("cleanup", filename, 404, "File not found", "undefined", "none")
              /\ UNCHANGED disk
    /\ UNCHANGED req

Next ==
    \/ \E id \in Ids, ext \in UploadExts, mime \in Mimes : Upload(id, ext, mime) /\ UNCHANGED hist
    \/ \E r \in Reqs, f \in ReqNames : CheckFile(r, f) /\ UNCHANGED hist
    \/ \E r \in Reqs, code \in ExitCodes, out \in Outputs : PythonClose(r, code, out) /\ UNCHANGED hist
    \/ \E r \in Reqs, f \in ReqNames : GeneratePdf(r, f) /\ UNCHANGED hist
    \/ \E r \in Reqs : ConvertWrite(r) /\ UNCHANGED hist
    \/ \E r \in Reqs, code \in ExitCodes : ConvertClose(r, code) /\ UNCHANGED hist
    \/ \E r \in Reqs : PdfWrite(r) /\ UNCHANGED hist
    \/ \E r \in Reqs, code \in ExitCodes : PdfClose(r, code) /\ UNCHANGED hist
    \/ \E r \in Reqs : DownloadCallback(r) /\ UNCHANGED hist
    \/ \E r \in Reqs, p \in Paths : RemoveTemp(r, p) /\ UNCHANGED hist
    \/ \E r \in Reqs, f \in ReqNames : Cleanup(r, f) /\ UNCHANGED hist

Spec == Init /\ [][Next]_vars

\* the conversion pipeline alone: every action that reads or writes the
\* uploads directory or a Generate request (a Check neither touches a file
\* nor a Generate request)
NextPipeline ==
    \/ \E id \in Ids, ext \in UploadExts, mime \in Mimes : Upload(id, ext, mime) /\ UNCHANGED hist
    \/ \E r \in Reqs, f \in ReqNames : GeneratePdf(r, f) /\ UNCHANGED hist
    \/ \E r \in Reqs : ConvertWrite(r) /\ UNCHANGED hist
    \/ \E r \in Reqs, code \in ExitCodes : ConvertClose(r, code) /\ UNCHANGED hist
    \/ \E r \in Reqs : PdfWrite(r) /\ UNCHANGED hist
    \/ \E r \in Reqs, code \in ExitCodes : PdfClose(r, code) /\ UNCHANGED hist
    \/ \E r \in Reqs : DownloadCallback(r) /\ UNCHANGED hist
    \/ \E r \in Reqs, p \in Paths : RemoveTemp(r, p) /\ UNCHANGED hist
    \/ \E r \in Reqs, f \in ReqNames : Cleanup(r, f) /\ UNCHANGED hist

SpecPipeline == Init /\ [][NextPipeline]_vars

\* the server while a single report is stored (uploaded, cleaned up and
\* uploaded again under the same name); requests name any id, also ids no
\* upload has issued
NextOneReport ==
    \/ \E ext \in UploadExts, mime \in Mimes : Upload(1, ext, mime) /\ UNCHANGED hist
    \/ \E r \in Reqs, f \in ReqNames : CheckFile(r, f) /\ UNCHANGED hist
    \/ \E r \in Reqs, code \in ExitCodes, out \in Outputs : PythonClose(r, code, out) /\ UNCHANGED hist
    \/ \E r \in Reqs, f \in ReqNames : GeneratePdf(r, f) /\ UNCHANGED hist
    \/ \E r \in Reqs : ConvertWrite(r) /\ UNCHANGED hist
    \/ \E r \in Reqs, code \in ExitCodes : ConvertClose(r, code) /\ UNCHANGED hist
    \/ \E r \in Reqs : PdfWrite(r) /\ UNCHANGED hist
    \/ \E r \in Reqs, code \in ExitCodes : PdfClose(r, code) /\ UNCHANGED hist
    \/ \E r \in Reqs : DownloadCallback(r) /\ UNCHANGED hist
    \/ \E r \in Reqs, p \in Paths : RemoveTemp(r, p) /\ UNCHANGED hist
    \/ \E r \in Reqs, f \in ReqNames : Cleanup(r, f) /\ UNCHANGED hist

SpecOneReport == Init /\ [][NextOneReport]_vars

\* pythonProcess.stderr.on('data'): errorOutput += data.toString()
PythonStderr(r) ==
    /\ req[r].py = "running"
    /\ errorOutput[r] < MaxChunks
    /\ errorOutput' = [errorOutput EXCEPT ![r] = @ + 1]
    /\ resp' = NoResp
    /\ UNCHANGED <<disk, req, cleaned, ef, client>>

\* the Check route with the stderr text its handler collects; the text is
\* gone with the handler's closure when the request has been answered
NextDiag ==
    \/ \E id \in Ids, ext \in UploadExts, mime \in Mimes :
          Upload(id, ext, mime) /\ UNCHANGED hist
    \/ \E r \in Reqs, f \in ReqNames : CheckFile(r, f) /\ UNCHANGED hist
    \/ \E r \in Reqs : PythonStderr(r)
    \/ \E r \in Reqs, code \in ExitCodes, out \in Outputs :
          /\ PythonClose(r, code, out)
          /\ errorOutput' = [errorOutput EXCEPT ![r] = 0]
          /\ UNCHANGED <<cleaned, ef, client>>
    \/ \E r \in Reqs, f \in ReqNames : Cleanup(r, f) /\ UNCHANGED hist

SpecDiag == Init /\ [][NextDiag]_vars

\* the evaluator applied to three extracted values
Evaluate(c, t, k) ==
    /\ ef' = Result(c, t, k, evaluate(c, t, k))
    /\ UNCHANGED <<disk, req, resp, cleaned, errorOutput, client>>

NextEval == \E c \in EFValues, t \in EFValues, k \in EFValues : Evaluate(c, t, k)

SpecEval == Init /\ [][NextEval]_vars

\* the conversion pipeline while two reports are stored and requests on both
\* interleave: every action that reads or writes the uploads directory
NextTwoReports ==
    \/ \E id \in TwoIds, ext \in UploadExts, mime \in Mimes : Upload(id, ext, mime) /\ UNCHANGED hist
    \/ \E r \in Reqs, f \in TwoNames : GeneratePdf(r, f) /\ UNCHANGED hist
    \/ \E r \in Reqs : ConvertWrite(r) /\ UNCHANGED hist
    \/ \E r \in Reqs, code \in ExitCodes : ConvertClose(r, code) /\ UNCHANGED hist
    \/ \E r \in Reqs : PdfWrite(r) /\ UNCHANGED hist
    \/ \E r \in Reqs, code \in ExitCodes : PdfClose(r, code) /\ UNCHANGED hist
    \/ \E r \in Reqs : DownloadCallback(r) /\ UNCHANGED hist
    \/ \E r \in Reqs, p \in Paths : RemoveTemp(r, p) /\ UNCHANGED hist
    \/ \E r \in Reqs, f \in TwoNames : Cleanup(r, f) /\ UNCHANGED hist

SpecTwoReports == Init /\ [][NextTwoReports]_vars

\* the server when clients send files of any name and declared type; this
\* specification records the history variable: a successful Cleanup adds its
\* filename, an accepted Upload that issues a name again takes it out
NextAnyUpload ==
    \/ \E id \in Ids, ext \in ClientExts, mime \in Mimes :
          /\ Upload(id, ext, mime)
          /\ cleaned' = IF resp'.status = 200 THEN cleaned \ {resp'.filename} ELSE cleaned
          /\ UNCHANGED <<ef, errorOutput, client>>
    \/ \E r \in Reqs, f \in ClientNames : CheckFile(r, f) /\ UNCHANGED hist
    \/ \E r \in Reqs, code \in ExitCodes, out \in Outputs : PythonClose(r, code, out) /\ UNCHANGED hist
    \/ \E r \in Reqs, f \in ClientNames : GeneratePdf(r, f) /\ UNCHANGED hist
    \/ \E r \in Reqs : ConvertWrite(r) /\ UNCHANGED hist
    \/ \E r \in Reqs, code \in ExitCodes : ConvertClose(r, code) /\ UNCHANGED hist
    \/ \E r \in Reqs : PdfWrite(r) /\ UNCHANGED hist
    \/ \E r \in Reqs, code \in ExitCodes : PdfClose(r, code) /\ UNCHANGED hist
    \/ \E r \in Reqs : DownloadCallback(r) /\ UNCHANGED hist
    \/ \E r \in Reqs, p \in ClientPaths : RemoveTemp(r, p) /\ UNCHANGED hist
    \/ \E r \in Reqs, f \in ClientNames :
          /\ Cleanup(r, f)
          /\ cleaned' = IF resp'.status = 200 THEN cleaned \cup {f} ELSE cleaned
          /\ UNCHANGED <<ef, errorOutput, client>>

\* empty uploads directory in which files of any name can appear
InitAnyUpload == /\ disk = [p \in ClientPaths |-> NoFile]
                 /\ req = [r \in Reqs |-> FreshReq]
                 /\ resp = NoResp
                 /\ cleaned = {}
                 /\ ef = NoResult
                 /\ errorOutput = [r \in Reqs |-> 0]
                 /\ client = NoClient

SpecAnyUpload == InitAnyUpload /\ [][NextAnyUpload]_vars

\* the upload store with files of any name, declared type and size, and the
\* routes that do not write to it (one Check request at a time)
NextSize ==
    \/ \E id \in Ids, ext \in ClientExts, mime \in Mimes, size \in Sizes :
          UploadSized(id, ext, mime, size) /\ UNCHANGED hist
    \/ \E f \in ClientNames : CheckFile(1, f) /\ UNCHANGED hist
    \/ \E code \in ExitCodes, out \in Outputs : PythonClose(1, code, out) /\ UNCHANGED hist
    \/ \E r \in Reqs, f \in ClientNames : Cleanup(r, f) /\ UNCHANGED hist

SpecSize == InitAnyUpload /\ [][NextSize]_vars

\* Date.now() at an upload: one of MaxNow milliseconds
Nows == 1..MaxNow
\* Math.round(Math.random() * 1E9): any of the values it can return, here
\* MaxRandom + 1 of them
Randoms == 0..MaxRandom
\* uniqueSuffix = Date.now() + '-' + Math.round(Math.random() * 1E9): the
\* pair of the two numbers, written as one number
uniqueSuffix(now, rnd) == now * (MaxRandom + 1) + rnd
Suffixes == {uniqueSuffix(now, rnd) : now \in Nows, rnd \in Randoms}
\* the paths and request names of the files stored under such suffixes
SuffixPaths == [id : Suffixes, ext : Exts]
SuffixNames == [id : Suffixes, ext : UploadExts] \cup {NoName}

\* uploads named by the clock and the random number, and the routes that
\* read and remove what they stored (one Check request at a time)
NextSuffix ==
    \/ \E now \in Nows, rnd \in Randoms, ext \in UploadExts, mime \in Mimes :
          Upload(uniqueSuffix(now, rnd), ext, mime) /\ UNCHANGED hist
    \/ \E f \in SuffixNames : CheckFile(1, f) /\ UNCHANGED hist
    \/ \E code \in ExitCodes, out \in Outputs : PythonClose(1, code, out) /\ UNCHANGED hist
    \/ \E r \in Reqs, f \in SuffixNames : Cleanup(r, f) /\ UNCHANGED hist

InitSuffix == /\ disk = [p \in SuffixPaths |-> NoFile]
              /\ req = [r \in Reqs |-> FreshReq]
              /\ resp = NoResp
              /\ cleaned = {}
              /\ ef = NoResult
              /\ errorOutput = [r \in Reqs |-> 0]
              /\ client = NoClient

SpecSuffix == InitSuffix /\ [][NextSuffix]_vars

\* const uploadsDir = path.join(__dirname, 'uploads'), as path segments
uploadsDir == <<"server", "uploads">>
\* path.normalize on the segments of a path: a ".." segment removes the
\* segment before it (and is dropped at the root)
RECURSIVE normalize(_, _)
normalize(done, rest) ==
    IF rest = <<>> THEN done
    ELSE IF Head(rest) = ".."
    THEN normalize(IF done = <<>> THEN done ELSE SubSeq(done, 1, Len(done) - 1), Tail(rest))
    ELSE normalize(Append(done, Head(rest)), Tail(rest))
\* the directory segments a client can put before the file name in the
\* filename field: none, "../", "../uploads/"
NameDirs == {<<>>, <<"..">>, <<"..", "uploads">>}
\* the filename field of a request when clients send any text: directory
\* segments followed by a file name
AnyNames == [dirs : NameDirs, id : Ids, ext : UploadExts] \cup {NoName}
\* path.join(dir, filename): the segments of both, normalized; a path in
\* the uploads directory is written as its file name alone, as /upload
\* returns it
join(dir, filename) ==
    IF filename = NoName THEN NoName
    ELSE LET d == normalize(<<>>, dir \o filename.dirs)
         IN  IF d = uploadsDir
               THEN [id |-> filename.id, ext |-> filename.ext]
               ELSE [dir |-> d, id |-> filename.id, ext |-> filename.ext]
\* the directory of a path
dirname(p) == IF "dir" \in DOMAIN p THEN p.dir ELSE uploadsDir
\* the paths a request can name: in the uploads directory and outside it
AnyPaths == Paths \cup [dir : {normalize(<<>>, uploadsDir \o d) : d \in NameDirs} \ {uploadsDir},
                        id : Ids, ext : Exts]
\* a file that was on the machine before the server started
Foreign == -3

\* the server on a machine that has files outside the uploads directory,
\* with requests whose filename field is any text
InitAnyName ==
    /\ disk = [p \in AnyPaths |-> IF "dir" \in DOMAIN p /\ p.ext = ".rtf" THEN Foreign ELSE NoFile]
    /\ req = [r \in Reqs |-> FreshReq]
    /\ resp = NoResp
    /\ cleaned = {}
    /\ ef = NoResult
    /\ errorOutput = [r \in Reqs |-> 0]
    /\ client = NoClient

NextAnyName ==
    \/ \E id \in Ids, ext \in UploadExts, mime \in Mimes : Upload(id, ext, mime) /\ UNCHANGED hist
    \/ \E r \in Reqs, f \in AnyNames : CheckFile(r, join(uploadsDir, f)) /\ UNCHANGED hist
    \/ \E r \in Reqs, code \in ExitCodes, out \in Outputs : PythonClose(r, code, out) /\ UNCHANGED hist
    \/ \E r \in Reqs, f \in AnyNames : GeneratePdf(r, join(uploadsDir, f)) /\ UNCHANGED hist
    \/ \E r \in Reqs : ConvertWrite(r) /\ UNCHANGED hist
    \/ \E r \in Reqs, code \in ExitCodes : ConvertClose(r, code) /\ UNCHANGED hist
    \/ \E r \in Reqs : PdfWrite(r) /\ UNCHANGED hist
    \/ \E r \in Reqs, code \in ExitCodes : PdfClose(r, code) /\ UNCHANGED hist
    \/ \E r \in Reqs : DownloadCallback(r) /\ UNCHANGED hist
    \/ \E r \in Reqs, p \in AnyPaths : RemoveTemp(r, p) /\ UNCHANGED hist
    \/ \E r \in Reqs, f \in AnyNames : Cleanup(r, join(uploadsDir, f)) /\ UNCHANGED hist

SpecAnyName == InitAnyName /\ [][NextAnyName]_vars

\* pdfProcess.on('close') up to the call of res.download: the call returns
\* before anything is sent, the file is opened later
PdfCloseDownload(r, code) ==
    IF code = 0 /\ pathExists(pdfPathOf(docxPathOf(req[r].filename)))
      THEN /\ req[r].pdf = "running"
           /\ req' = [req EXCEPT ![r].pdf = "ok", ![r].dl = "sending"]
           /\ resp' = NoResp
           /\ UNCHANGED disk
      ELSE PdfClose(r, code)

\* res.download opens pdfPath: when the file is there it is sent and the
\* callback runs without error; when it is gone the callback gets the error,
\* logs it and sends nothing. Both ways the callback issues the two
\* fs.remove calls.
DownloadEnd(r) ==
    /\ req[r].dl = "sending"
    /\ IF pathExists(pdfPathOf(docxPathOf(req[r].filename)))
         THEN /\ req' = [req EXCEPT ![r].dl = "done", ![r].pendingRm = TempFiles(req[r].filename)]
              /\ resp' = Response("generate", req[r].filename, 200, "", "undefined", "file")
         ELSE /\ req' = [req EXCEPT ![r].dl = "aborted", ![r].pendingRm = TempFiles(req[r].filename)]
              /\ resp' = NoResp
    /\ UNCHANGED disk

\* the server with the download of the PDF as a step of its own
NextDownload ==
    \/ \E id \in Ids, ext \in UploadExts, mime \in Mimes : Upload(id, ext, mime) /\ UNCHANGED hist
    \/ \E r \in Reqs, f \in ReqNames : CheckFile(r, f) /\ UNCHANGED hist
    \/ \E r \in Reqs, code \in ExitCodes, out \in Outputs : PythonClose(r, code, out) /\ UNCHANGED hist
    \/ \E r \in Reqs, f \in ReqNames : GeneratePdf(r, f) /\ UNCHANGED hist
    \/ \E r \in Reqs : ConvertWrite(r) /\ UNCHANGED hist
    \/ \E r \in Reqs, code \in ExitCodes : ConvertClose(r, code) /\ UNCHANGED hist
    \/ \E r \in Reqs : PdfWrite(r) /\ UNCHANGED hist
    \/ \E r \in Reqs, code \in ExitCodes : PdfCloseDownload(r, code) /\ UNCHANGED hist
    \/ \E r \in Reqs : DownloadEnd(r) /\ UNCHANGED hist
    \/ \E r \in Reqs, p \in Paths : RemoveTemp(r, p) /\ UNCHANGED hist
    \/ \E r \in Reqs, f \in ReqNames : Cleanup(r, f) /\ UNCHANGED hist

SpecDownload == Init /\ [][NextDownload]_vars

\* ---- client: ActionButtons ----
\* the filename prop of the component: the name /upload returned
filenameProp == [id |-> 1, ext |-> ".rtf"]

\* the results prop changes: the parent shows the result of a Check
SetResults(st) ==
    /\ client' = [client EXCEPT !.status = st]
    /\ resp' = NoResp
    /\ UNCHANGED <<disk, req, cleaned, ef, errorOutput>>

\* faulty variant: the button is disabled by the status alone
disabledByStatus == client.status # "good"

\* disabled={results.status !== 'good' || isGeneratingPdf}
disabled == client.status # "good" \/ client.isGeneratingPdf

\* the axios promise settles when the server answers the Generate request:
\* a non-2xx answer goes to catch (setPdfError), and finally clears the flag
Settle(c, rs) ==
    IF rs.kind = "generate" /\ rs.status # 0 /\ c.pending > 0
      THEN [c EXCEPT !.pending = @ - 1,
                     !.isGeneratingPdf = FALSE,
                     !.pdfError = IF rs.status = 200 THEN @ ELSE rs.error]
      ELSE c

\* handleGeneratePdf on a click of the enabled button: returns when the
\* status is not 'good', else sets the flag, clears the error and posts
\* /generate-pdf; request r is what the server makes of the post
handleGeneratePdf(r) ==
    /\ ~disabled
    /\ IF client.status # "good"
         THEN UNCHANGED vars
         ELSE /\ GeneratePdf(r, filenameProp)
              /\ client' = Settle([client EXCEPT !.isGeneratingPdf = TRUE,
                                                 !.pdfError = "null",
                                                 !.pending = @ + 1], resp')
              /\ UNCHANGED <<cleaned, ef, errorOutput>>

\* the Dismiss button of the error display
DismissError ==
    /\ client.pdfError # "null"
    /\ client' = [client EXCEPT !.pdfError = "null"]
    /\ resp' = NoResp
    /\ UNCHANGED <<disk, req, cleaned, ef, errorOutput>>

\* a step of the server while the component waits: the component sees the
\* answer to its request when the step sends one
ServerStep(A) == A /\ client' = Settle(client, resp') /\ UNCHANGED <<cleaned, ef, errorOutput>>

\* the component with the server behind it
NextClient ==
    \/ \E mime \in Mimes : ServerStep(Upload(filenameProp.id, filenameProp.ext, mime))
    \/ \E st \in CheckStatuses : SetResults(st)
    \/ \E r \in Reqs : handleGeneratePdf(r)
    \/ DismissError
    \/ \E r \in Reqs : ServerStep(ConvertWrite(r))
    \/ \E r \in Reqs, code \in ExitCodes : ServerStep(ConvertClose(r, code))
    \/ \E r \in Reqs : ServerStep(PdfWrite(r))
    \/ \E r \in Reqs, code \in ExitCodes : ServerStep(PdfClose(r, code))
    \/ \E r \in Reqs : ServerStep(DownloadCallback(r))
    \/ \E r \in Reqs, p \in Paths : ServerStep(RemoveTemp(r, p))

\* scheduling: every spawned process ends and Node delivers its 'close'
\* event, so that the request the component waits for is answered
FairnessClient ==
    \A r \in Reqs :
        /\ WF_vars(\E code \in ExitCodes : ServerStep(ConvertClose(r, code)))
        /\ WF_vars(\E code \in ExitCodes : ServerStep(PdfClose(r, code)))

SpecClient == Init /\ [][NextClient]_vars /\ FairnessClient

\* the Check route when the extraction process may write any text to its
\* stdout and stderr
NextParse ==
    \/ \E id \in Ids, ext \in UploadExts, mime \in Mimes :
          Upload(id, ext, mime) /\ UNCHANGED hist
    \/ \E r \in Reqs, f \in ReqNames : CheckFile(r, f) /\ UNCHANGED hist
    \/ \E r \in Reqs : PythonStderr(r)
    \/ \E r \in Reqs, code \in ExitCodes, out \in ParsedOutputs :
          /\ PythonClose(r, code, out)
          /\ errorOutput' = [errorOutput EXCEPT ![r] = 0]
          /\ UNCHANGED <<cleaned, ef, client>>
    \/ \E r \in Reqs, f \in ReqNames : Cleanup(r, f) /\ UNCHANGED hist

SpecParse == Init /\ [][NextParse]_vars

\* an external process that never terminates: spawn() sets no timeout and
\* nothing kills the child, so its 'close' event never comes
Hang(r) ==
    /\ \E st \in {"py", "conv", "pdf"} :
          /\ req[r][st] = "running"
          /\ req' = [req EXCEPT ![r][st] = "hung"]
    /\ resp' = NoResp
    /\ UNCHANGED disk

\* the server with processes that may hang
NextLive ==
    \/ Next
    \/ \E r \in Reqs : Hang(r) /\ UNCHANGED hist

\* scheduling: a process that has not hung ends and Node delivers its 'close'
\* event; the event loop runs the download callback and completes every
\* fs.remove that was issued
Fairness ==
    \A r \in Reqs :
        /\ WF_vars(\E code \in ExitCodes, out \in Outputs : PythonClose(r, code, out) /\ UNCHANGED hist)
        /\ WF_vars(\E code \in ExitCodes : ConvertClose(r, code) /\ UNCHANGED hist)
        /\ WF_vars(\E code \in ExitCodes : PdfClose(r, code) /\ UNCHANGED hist)
        /\ WF_vars(DownloadCallback(r) /\ UNCHANGED hist)
        /\ WF_vars(\E p \in Paths : RemoveTemp(r, p) /\ UNCHANGED hist)

SpecLive == Init /\ [][NextLive]_vars /\ Fairness

TypeOK ==
    /\ disk \in [Paths -> Origins] \cup [ClientPaths -> Origins]
    /\ \A r \in Reqs : req[r].kind \in {"none", "check", "generate"}
    /\ resp.kind \in {"none", "upload", "check", "generate", "cleanup"}
    /\ cleaned \subseteq ClientPaths
    /\ ef \in [conclusion : EFValues, text : EFValues, calcs : EFValues,
               status : {"none", "good", "discordant", "incomplete"}]
    /\ errorOutput \in [Reqs -> 0..MaxChunks]
    /\ client \in [status : {"none"} \cup CheckStatuses, isGeneratingPdf : BOOLEAN,
                  pdfError : {"null", "File not found", "RTF to DOCX conversion failed",
                              "PDF generation failed", "PDF file was not created"},
                  pending : 0..MaxReqs]


\* ---- properties ----

\* request r has an external process running or a download being sent
InFlight(r) == \/ req[r].py = "running"
               \/ req[r].conv = "running"
               \/ req[r].pdf = "running"
               \/ req[r].dl = "sending"

\* this step starts an external process for a new request of route k on f
Starts(k, f) == \E r \in Reqs : /\ req[r].kind = "none"
                                /\ req'[r].kind = k
                                /\ req'[r].filename = f

\* this step ends Generate request r with a failure response
GenerateFails(r) == /\ req[r].kind = "generate"
                    /\ req'[r].kind = "none"
                    /\ resp'.kind = "generate"
                    /\ resp'.status = 500

\* this step ends Generate request r after a delivered download
GenerateCompletes(r) == /\ req[r].dl = "done"
                        /\ req'[r].kind = "none"

\* the response just sent shows that the report stored as f is not Good: it
\* was just uploaded (never checked), or its Check just ended otherwise
NotGood(f) == /\ resp.filename = f
              /\ \/ resp.kind = "upload" /\ resp.status = 200
                 \/ resp.kind = "check" /\ resp.result # "good"

\* the source, intermediate and final artifact of the report stored as f
ReportArtifacts(f) == {f, replace(f, ".rtf", ".docx"),
                       replace(replace(f, ".rtf", ".docx"), ".docx", ".pdf")}

\* C1: a Generate request for a report whose most recent Check status is not
\* Good (or that was never checked) starts no conversion task.
C1_GenerateRejectedUnlessGood ==
    [][\A f \in Paths : NotGood(f) => ~Starts("generate", f)]_vars

\* C2: when a Generate run fails at some stage, no artifact written by that
\* run is on disk at the moment the failure response is sent.
C2_FailureLeavesNoArtifact ==
    [][\A r \in Reqs : GenerateFails(r) => \A p \in Paths : disk[p] # r]_vars

\* C3: the PDF stage of a run is started only after its conversion stage has
\* exited with success; the two stages are never active together and the PDF
\* stage is never started after the conversion stage failed.
C3_StagesSequential ==
    \A r \in Reqs :
        /\ req[r].pdf # "none" => req[r].conv = "ok"
        /\ req[r].conv = "failed" => req[r].pdf = "none"
        /\ ~(req[r].conv = "running" /\ req[r].pdf = "running")

\* C3 witness: a run whose PDF stage is active after a successful conversion
C3_Witness ==
    \E r \in Reqs : req[r].conv = "ok" /\ req[r].pdf = "running"

\* C4: when the conversion stage exits with zero status but its output
\* artifact is missing, the run fails there and the PDF stage is not started
\* (a non-zero exit fails the run as well, so this is stated for every exit
\* of the conversion stage that finds the output missing).
C4_MissingOutputFailsStage ==
    [][\A r \in Reqs :
         (req[r].conv = "running" /\ req'[r].conv # "running"
          /\ ~pathExists(docxPathOf(req[r].filename)))
         => (req'[r].pdf = "none" /\ resp'.kind = "generate" /\ resp'.status = 500)]_vars

\* C5: a Generate failure response names the stage that failed and carries
\* that stage's diagnostic output as the reason.
C5_FailureNamesStageAndReason ==
    (resp.kind = "generate" /\ resp.status = 500) =>
        /\ resp.error \in {"RTF to DOCX conversion failed", "PDF generation failed",
                           "PDF file was not created"}
        /\ resp.details = "errorOutput"

C7_SecondRequestRejected ==
    [][\A f \in Paths :
         (\E q \in Reqs : InFlight(q) /\ req[q].filename = f)
         => ~(Starts("check", f) \/ Starts("generate", f))]_vars

\* C8: at most one conversion job (stage process) is active per report.
C8_OneJobPerReport ==
    \A f \in Paths :
        Cardinality({r \in Reqs : /\ req[r].filename = f
                                  /\ (req[r].conv = "running" \/ req[r].pdf = "running")}) <= 1

\* C9: a Cleanup of a report that the previous Cleanup already removed gets a
\* non-error response and leaves the stored files unchanged.
C9_CleanupIdempotent ==
    [][(/\ resp.kind = "cleanup" /\ resp.status = 200
        /\ resp'.kind = "cleanup" /\ resp'.filename = resp.filename)
       => (resp'.status < 400 /\ disk' = disk)]_vars

\* C10: when a Cleanup succeeds and no work for that report is in flight,
\* no source, intermediate or final artifact of the report exists.
C10_CleanupRemovesAllArtifacts ==
    [][(/\ resp'.kind = "cleanup" /\ resp'.status = 200
        /\ \A q \in Reqs : req[q].filename # resp'.filename)
       => \A p \in ReportArtifacts(resp'.filename) : disk'[p] = NoFile]_vars

\* C11: after a successful Cleanup of a stored name (and until an Upload
\* issues that name again), no Check or Generate request naming it starts an
\* external process: each is rejected.
C11_CleanedUpIsTerminal ==
    [][\A f \in cleaned : ~(Starts("check", f) \/ Starts("generate", f))]_vars

\* request r is being handled and no response to it has been sent
Unanswered(r) == req[r].kind # "none" /\ req[r].dl = "none"

\* C12: every Check and Generate request being handled eventually gets its
\* response, also when an external process never terminates.
C12_EveryRequestAnswered ==
    \A r \in Reqs : Unanswered(r) ~> ~Unanswered(r)

\* C13: an upload whose extension is not .rtf (compared case-insensitively)
\* is rejected with a client (validation) error whatever MIME type it
\* declares, and stores no file.
C13_NonReportUploadRejected ==
    [][\A id \in Ids, ext \in ClientExts, mime \in Mimes :
         (toLowerCase(ext) # ".rtf" /\ Upload(id, ext, mime))
         => (resp'.status \in 400..499 /\ resp'.filename = NoName /\ disk' = disk)]_vars

\* C14: a Check, Generate or Cleanup request without filename, or naming a
\* file that is not stored, is answered at once with 400 or 404 and changes
\* nothing: no process is started and no file is created, changed or removed.
C14_RejectedRequestHasNoEffect ==
    [][\A r \in Reqs, f \in ReqNames :
         (/\ f = NoName \/ disk[f] = NoFile
          /\ CheckFile(r, f) \/ GeneratePdf(r, f) \/ Cleanup(r, f))
         => (/\ resp'.status = IF f = NoName THEN 400 ELSE 404
             /\ resp'.error = IF f = NoName THEN "Filename is required" ELSE "File not found"
             /\ req' = req
             /\ disk' = disk)]_vars

\* C14 witness: a Check naming a file that is not stored has just been
\* answered 404 while a Generate for that same name is still in flight
C14_Witness ==
    /\ resp.kind = "check" /\ resp.status = 404
    /\ resp.filename \in Paths /\ disk[resp.filename] = NoFile
    /\ \E q \in Reqs : InFlight(q) /\ req[q].filename = resp.filename

\* the three values of the last evaluation
Extracted == {ef.conclusion, ef.text, ef.calcs}

\* C15: the status is a total function of the three extracted values: it is
\* Incomplete exactly when one of them is Missing, whatever the other two
\* are; Good exactly when all three are present and equal; Discordant
\* otherwise, in particular when two of them differ by 1.
C15_StatusByPriority ==
    ef.status # "none" =>
        /\ ef.status \in {"incomplete", "good", "discordant"}
        /\ ef.status = "incomplete" <=> Missing \in Extracted
        /\ ef.status = "good" <=> (Missing \notin Extracted /\ Cardinality(Extracted) = 1)
        /\ (Missing \notin Extracted /\ \E x, y \in Extracted : x - y = 1)
              => ef.status = "discordant"

\* C15 witness: all three values present, two equal and the third larger by 1
C15_Witness ==
    /\ ef.status = "discordant"
    /\ ef.conclusion # Missing
    /\ ef.text = ef.conclusion
    /\ ef.calcs = ef.conclusion + 1

\* this step belongs to a Check request: it arrives (and is rejected or
\* spawns the extraction process) or its process ends and it is answered
CheckStep ==
    \/ resp'.kind = "check"
    \/ \E r \in Reqs : req'[r] # req[r] /\ "check" \in {req[r].kind, req'[r].kind}

C17_AbnormalExitGivesErrorStatus ==
    [][\A r \in Reqs, code \in ExitCodes \ {0}, out \in Outputs :
         PythonClose(r, code, out) => resp'.result = "error"]_vars

\* this step is taken for the report with suffix i: by an Upload or Cleanup
\* that names it, or by a Generate request on it (a step of its handler or
\* callbacks, or a write of one of its processes)
StepOn(i) ==
    \/ resp'.kind \in {"upload", "cleanup"} /\ resp'.filename.id = i
    \/ \E r \in Reqs : /\ req[r].kind = "generate"
                        /\ req[r].filename.id = i
                        /\ \/ req'[r] # req[r]
                           \/ \E p \in Paths : disk'[p] = r /\ disk[p] # r

\* C18: whenever a file of a report is created, overwritten or removed, the
\* step that does it is a step of an operation naming that report; no
\* operation on one report touches a file of another.
C18_ReportsAreIsolated ==
    [][disk' # disk => \A p \in Paths : disk'[p] # disk[p] => StepOn(p.id)]_vars

\* C18 witness: Generate runs for two different reports are in flight and
\* each has written its intermediate document
C18_Witness ==
    \E r, q \in Reqs :
        /\ req[r].filename.id # req[q].filename.id
        /\ req[r].kind = "generate" /\ req[q].kind = "generate"
        /\ disk[docxPathOf(req[r].filename)] = r
        /\ disk[docxPathOf(req[q].filename)] = q

\* the requests whose external process is running
ActiveTasks == {r \in Reqs : \/ req[r].py = "running"
                              \/ req[r].conv = "running"
                              \/ req[r].pdf = "running"}

\* C19: the number of external processes active at the same time stays
\* within a maximum: when as many requests are being handled as the server
\* can receive at once, at least one of them is waiting or was rejected
\* instead of running a process (a maximum of MaxReqs - 1 is enforced).
C19_ActiveTasksBounded == Cardinality(ActiveTasks) < MaxReqs

\* C20: the diagnostic text an error response of a Check carries is bounded
\* in size whatever the process wrote: the response that echoes errorOutput
\* is shorter than the most the process can write (a limit of
\* MaxChunks - 1 chunks is enforced).
C20_DiagnosticTextBounded ==
    [][\A r \in Reqs :
         (req[r].py = "running" /\ req'[r].py # "running" /\ resp'.details = "errorOutput")
         => errorOutput[r] < MaxChunks]_vars

\* C21: an Upload only stores the file and returns its name: the step starts
\* no process, changes no request, and the only file it creates or
\* overwrites is the stored upload itself.
C21_UploadTriggersNoProcessing ==
    [][resp'.kind = "upload" =>
         /\ req' = req
         /\ \A p \in DOMAIN disk :
               disk'[p] # disk[p] => (p = resp'.filename /\ disk'[p] = FromUpload)]_vars

\* C21 witness: an upload has just been stored while a Generate run of the
\* same report is in flight
C21_Witness ==
    /\ resp.kind = "upload" /\ resp.status = 200
    /\ disk[resp.filename] = FromUpload
    /\ \E r \in Reqs : req[r].conv = "running" /\ req[r].filename = resp.filename

\* the size limit the documentation states: 10 MB
TenMB == 10 * 1024 * 1024

C23_MalformedOutputGivesError ==
    [][\A r \in Reqs, code \in ExitCodes, out \in ParsedOutputs :
         PythonClose(r, code, out) =>
            /\ resp'.kind = "check"
            /\ (code # 0 \/ out \notin CheckStatuses)
                  => (resp'.status >= 400 /\ resp'.error # "" /\ resp'.result = "none")]_vars

\* C24: every accepted upload is stored under a name no stored file has, so
\* that two uploads, also two in the same millisecond, get different ids and
\* a later upload never overwrites an earlier one.
C24_UploadNeverOverwrites ==
    [][(resp'.kind = "upload" /\ resp'.status = 200) => disk[resp'.filename] = NoFile]_vars

\* C25: the source of an accepted upload, whatever its name, is changed or
\* removed only by a Cleanup (or replaced by an Upload): no step of a
\* Generate writes to it or deletes it, because the intermediate and the
\* final path differ from the source path.
C25_GenerateKeepsSource ==
    [][\A p \in DOMAIN disk :
         (disk[p] = FromUpload /\ disk'[p] # FromUpload) => resp'.kind = "cleanup"]_vars

\* path p lies inside the uploads directory
InsideUploads(p) == /\ Len(dirname(p)) >= Len(uploadsDir)
                    /\ SubSeq(dirname(p), 1, Len(uploadsDir)) = uploadsDir

\* C26: whatever the filename field of a request holds, every file that is
\* created, overwritten or removed, and every file a request's processes
\* are started on, lies inside the uploads directory.
C26_FilesStayInsideUploads ==
    [][/\ \A p \in DOMAIN disk : disk'[p] # disk[p] => InsideUploads(p)
       /\ \A r \in Reqs : (req[r].kind = "none" /\ req'[r].kind # "none")
                               => InsideUploads(req'[r].filename)]_vars

\* this step sends a response to request r
Answers(r) == /\ resp'.kind = req[r].kind
              /\ resp'.filename = req[r].filename
              /\ resp'.status # 0

\* C27: a request is answered exactly once: when the handling of a Check or
\* Generate request ends, one response to it has been sent, in this step or
\* in an earlier one but not in both, and no step answers a request that
\* has been answered. (A request that is rejected at arrival, as every
\* Cleanup request, is answered in the step in which it arrives.)
C27_AnsweredExactlyOnce ==
    [][\A r \in Reqs :
         /\ (req[r].kind # "none" /\ req'[r].kind = "none")
               => (Answers(r) /\ req[r].dl = "none") \/ (~Answers(r) /\ req[r].dl = "done")
         /\ (req[r].dl = "done" /\ req'[r] # req[r]) => ~Answers(r)]_vars

\* this step posts /generate-pdf: the server takes up the request or
\* rejects it at once
Posts == \/ \E r \in Reqs : req[r].kind = "none" /\ req'[r].kind = "generate"
         \/ resp'.kind = "generate" /\ resp'.status \in {400, 404}

====
